---- MODULE Spec2Model ----
(***************************************************************************)
(* require-esm-in-cjs: main(uri) starts the dynamic import of an ES module *)
(* and spins on deasync.sleep(100) until the closure variable `mod` is     *)
(* truthy, then returns it (src/src/index.js).                             *)
(*                                                                         *)
(* The model keeps one record of state per invocation of main, the single  *)
(* JavaScript call stack, and the host's queue of ready tasks that         *)
(* deasync.sleep processes while an invocation is suspended in it.         *)
(***************************************************************************)
EXTENDS Integers, Sequences, FiniteSets, TLC

\* ------------------------------------------------------------------ bounds
\* Number of invocations of main in one run of the process.
NumInv == 2

\* The argument of deasync.sleep.
SleepMs == 100

Inv == 1..NumInv

\* ------------------------------------------------------------- JS values
\* JavaScript values that a module can export or throw, by their source text.
Falsy == {"undefined", "null", "false", "0", "''"}
JSValue == Falsy \cup {"42", "plugin", "Error: not found"}

\* ToBoolean, as applied by `!mod`.
ToBoolean(v) == v \notin Falsy

\* A module namespace object: a function from export names to values.
\* Property read `res.default`: undefined when the namespace has no such member.
GetDefault(res) == IF "default" \in DOMAIN res THEN res["default"] ELSE "undefined"

\* --------------------------------------------------- the modules on disk
\* What import(uri) does for each identifier: fulfil with a namespace, reject
\* with whatever the load threw, or never settle (a module whose top-level
\* await never resolves).
Uris == {"esm-pkg", "answer", "zero", "empty", "named-only", "undef",
         "missing", "throws-null", "throws-42", "hangs"}

Fulfilled(ns) == [state |-> "fulfilled", ns |-> ns, value |-> "undefined"]
Rejected(e) == [state |-> "rejected", ns |-> [none |-> "undefined"], value |-> e]
Unsettled == [state |-> "pending", ns |-> [none |-> "undefined"], value |-> "undefined"]
NoPromise == [state |-> "none", ns |-> [none |-> "undefined"], value |-> "undefined"]

Import(u) ==
  CASE u = "esm-pkg"     -> Fulfilled([default |-> "plugin"])
    [] u = "answer"      -> Fulfilled([default |-> "42"])
    [] u = "zero"        -> Fulfilled([default |-> "0"])
    [] u = "empty"       -> Fulfilled([default |-> "''"])
    [] u = "undef"       -> Fulfilled([default |-> "undefined"])
    [] u = "named-only"  -> Fulfilled([named |-> "42"])
    [] u = "missing"     -> Rejected("Error: not found")
    [] u = "throws-null" -> Rejected("null")
    [] u = "throws-42"   -> Rejected("42")
    [] OTHER             -> Unsettled

\* ----------------------------------------------------------------- state
VARIABLES
  pc,       \* per invocation: "idle", "check" (the while test), "sleep", "done"
  uri,      \* per invocation: the argument of main
  mod,      \* per invocation: the closure variable `mod`
  p1,       \* per invocation: the promise returned by import(uri)
  p2,       \* per invocation: the promise returned by .then(...)
  interval, \* per invocation: the argument of its last deasync.sleep call
  loads,    \* per invocation: number of import() calls
  wrote,    \* per slot: the reactions that assigned it, in order
  result,   \* per invocation: what main handed to its caller
  stack,    \* the JavaScript call stack: invocations of main, innermost last
  queue,    \* the host's ready tasks, in the order they became ready
  other,    \* an unrelated asynchronous task: "waiting", "ready", "done"
  ahead,    \* per invocation: the unrelated task was ready when its load settled
  ranIn,    \* the invocation whose deasync.sleep ran the unrelated task (0: none)
  console   \* what console.error has printed

vars == <<pc, uri, mod, p1, p2, interval, loads, wrote, result,
          stack, queue, other, ahead, ranIn, console>>

\* Variant: the slot declared with a truthy initial value.
InitialSlotSet == "plugin"
\* `let mod;` (line 5): the value of the fresh binding.
InitialSlot == "undefined"

NoResult == [kind |-> "none", value |-> "undefined"]

Task(t, i) == [type |-> t, inv |-> i]

Top == stack[Len(stack)]
Pop(s) == SubSeq(s, 1, Len(s) - 1)

Init ==
  /\ pc = [i \in Inv |-> "idle"]
  /\ uri = [i \in Inv |-> "none"]
  /\ mod = [i \in Inv |-> InitialSlot]
  /\ p1 = [i \in Inv |-> NoPromise]
  /\ p2 = [i \in Inv |-> NoPromise]
  /\ interval = [i \in Inv |-> 0]
  /\ loads = [i \in Inv |-> 0]
  /\ wrote = [i \in Inv |-> <<>>]
  /\ result = [i \in Inv |-> NoResult]
  /\ stack = <<>>
  /\ queue = <<>>
  /\ other = "waiting"
  /\ ahead = [i \in Inv |-> FALSE]
  /\ ranIn = 0
  /\ console = <<>>

\* --------------------------------------------------------------- main()
\* Variant: `mod` declared at module level, one slot for all invocations.
SlotShared(i) == 1
\* `let mod` is declared inside main: every invocation closes over its own slot.
Slot(i) == i

\* Variant: the test without its negation.
LoopCondInverted(i) == ToBoolean(mod[Slot(i)])
\* Variant: the loop gives up after one yield.
LoopCondTimeout(i) == ~ToBoolean(mod[Slot(i)]) /\ interval[i] = 0
\* `while (!mod)` (line 11), evaluated by invocation i: the loop goes on while
\* the slot is falsy, however many yields there have been.
LoopCond(i) == ~ToBoolean(mod[Slot(i)])

\* `return mod` (line 13): main hands the slot's value to its caller as a
\* return value; there is no throw statement in main.
Completion(v) == [kind |-> "return", value |-> v]

\* The reaction of .catch is a microtask queued by the reaction of .then: it
\* runs before control goes back to any other code.
MicrotaskPending == queue # <<>> /\ queue[1].type = "catch"

\* Variant: the load completes synchronously, its callback running inside
\* lines 5-9 before the loop is reached.
StartMainSync(i, u) ==
  /\ pc' = [pc EXCEPT ![i] = "check"]
  /\ uri' = [uri EXCEPT ![i] = u]
  /\ mod' = [mod EXCEPT ![Slot(i)] = GetDefault(Import(u).ns)]
  /\ wrote' = [wrote EXCEPT ![Slot(i)] = Append(@, Task("then", i))]
  /\ p1' = [p1 EXCEPT ![i] = Unsettled]
  /\ p2' = [p2 EXCEPT ![i] = Unsettled]
  /\ loads' = [loads EXCEPT ![i] = @ + 1]
  /\ stack' = Append(stack, i)
  /\ UNCHANGED <<interval, result, other, ahead, ranIn, console>>

\* Lines 5-9, which run without interruption: declare the slot, start the
\* import and attach the two reactions; then control reaches the while test.
StartMain(i, u) ==
  /\ pc' = [pc EXCEPT ![i] = "check"]
  /\ uri' = [uri EXCEPT ![i] = u]
  /\ mod' = [mod EXCEPT ![Slot(i)] = InitialSlot]
  /\ p1' = [p1 EXCEPT ![i] = Unsettled]
  /\ p2' = [p2 EXCEPT ![i] = Unsettled]
  /\ loads' = [loads EXCEPT ![i] = @ + 1]
  /\ stack' = Append(stack, i)
  /\ UNCHANGED <<interval, wrote, result, other, ahead, ranIn, console>>

\* Invocations are numbered in the order they are called.
Callable(i) ==
  /\ pc[i] = "idle"
  /\ IF i = 1 THEN TRUE ELSE pc[i - 1] \notin {"idle", "queued"}

\* main(uri) called by synchronous code on an empty stack (the top-level
\* script of README lines 9-10, or a task the main event loop runs).
Call(i, u) ==
  /\ Callable(i)
  /\ stack = <<>>
  /\ ~MicrotaskPending
  /\ StartMain(i, u)
  /\ UNCHANGED queue

\* Variant: the import is issued again on every turn of the loop.
PollRetry(i) ==
  /\ stack # <<>> /\ Top = i
  /\ pc[i] = "check"
  /\ LoopCond(i)
  /\ pc' = [pc EXCEPT ![i] = "sleep"]
  /\ interval' = [interval EXCEPT ![i] = SleepMs]
  /\ loads' = [loads EXCEPT ![i] = IF @ < 2 THEN @ + 1 ELSE @]
  /\ UNCHANGED <<uri, mod, p1, p2, wrote, result, stack, queue, other,
                 ahead, ranIn, console>>

\* Line 11, test true: call deasync.sleep(100).
Poll(i) ==
  /\ stack # <<>> /\ Top = i
  /\ pc[i] = "check"
  /\ LoopCond(i)
  /\ pc' = [pc EXCEPT ![i] = "sleep"]
  /\ interval' = [interval EXCEPT ![i] = SleepMs]
  /\ UNCHANGED <<uri, mod, p1, p2, loads, wrote, result, stack, queue, other,
                 ahead, ranIn, console>>

\* Line 11, test false, then line 13: leave the loop and return the slot.
Return(i) ==
  /\ stack # <<>> /\ Top = i
  /\ pc[i] = "check"
  /\ ~LoopCond(i)
  /\ pc' = [pc EXCEPT ![i] = "done"]
  /\ result' = [result EXCEPT ![i] = Completion(mod[Slot(i)])]
  /\ stack' = Pop(stack)
  /\ UNCHANGED <<uri, mod, p1, p2, interval, loads, wrote, queue,
                 other, ahead, ranIn, console>>

\* deasync.sleep returns: its 100 ms have elapsed and the task the event loop
\* was running, if any, has finished. The loop tests the slot again.
Wake(i) ==
  /\ stack # <<>> /\ Top = i
  /\ pc[i] = "sleep"
  /\ ~MicrotaskPending
  /\ pc' = [pc EXCEPT ![i] = "check"]
  /\ UNCHANGED <<uri, mod, p1, p2, interval, loads, wrote, result, stack, queue,
                 other, ahead, ranIn, console>>

\* ------------------------------------------------- the host's event loop
\* Variant: the handler attached so that it runs on every settlement.
CatchAlways(p) == TRUE
\* A promise reaction of `.catch(f)` calls f only for a rejected promise; a
\* fulfilled one passes through.
CatchFires(p) == p.state = "rejected"

\* deasync.sleep runs the host's ready tasks in the order they became ready,
\* whatever they belong to: the index in the queue of the task it runs next.
Pick(q) == 1

Without(q, k) == SubSeq(q, 1, k - 1) \o SubSeq(q, k + 1, Len(q))

\* The event loop takes a task when no JavaScript is running (empty stack) or
\* when the running code is inside deasync.sleep.
Looping ==
  /\ queue # <<>>
  /\ IF stack = <<>> THEN TRUE ELSE pc[Top] = "sleep"

Next1 == queue[Pick(queue)]
Rest == Without(queue, Pick(queue))

\* The host finishes the load of invocation i: the promise of import(uri)
\* settles and the reaction attached by .then (line 8) becomes ready.
Settle(i) ==
  /\ p1[i].state = "pending"
  /\ Import(uri[i]).state # "pending"
  /\ p1' = [p1 EXCEPT ![i] = Import(uri[i])]
  /\ queue' = Append(queue, Task("then", i))
  /\ ahead' = [ahead EXCEPT ![i] = other # "waiting"]
  /\ UNCHANGED <<pc, uri, mod, p2, interval, loads, wrote, result,
                 stack, other, ranIn, console>>

\* An unrelated asynchronous task of the same process becomes ready.
OtherReady ==
  /\ other = "waiting"
  /\ other' = "ready"
  /\ queue' = Append(queue, Task("other", 0))
  /\ UNCHANGED <<pc, uri, mod, p1, p2, interval, loads, wrote,
                 result, stack, ahead, ranIn, console>>

\* A task whose body calls main becomes ready (a timer or I/O callback that
\* requires an ES module).
CallerReady(i) ==
  /\ Callable(i)
  /\ pc' = [pc EXCEPT ![i] = "queued"]
  /\ queue' = Append(queue, Task("call", i))
  /\ UNCHANGED <<uri, mod, p1, p2, interval, loads, wrote, result,
                 stack, other, ahead, ranIn, console>>

\* Line 8: the reaction of .then(res => mod = res.default). On fulfilment the
\* arrow function assigns the slot and its value fulfils the derived promise;
\* a rejection passes through to the derived promise. Either way the reaction
\* of .catch is the next job to run.
RunThen(i) ==
  /\ Looping
  /\ Next1 = Task("then", i)
  /\ IF p1[i].state = "fulfilled"
       THEN /\ mod' = [mod EXCEPT ![Slot(i)] = GetDefault(p1[i].ns)]
            /\ wrote' = [wrote EXCEPT ![Slot(i)] = Append(@, Task("then", i))]
            /\ p2' = [p2 EXCEPT ![i] = [state |-> "fulfilled", ns |-> p1[i].ns,
                                        value |-> GetDefault(p1[i].ns)]]
       ELSE /\ p2' = [p2 EXCEPT ![i] = p1[i]]
            /\ UNCHANGED <<mod, wrote>>
  /\ queue' = <<Task("catch", i)>> \o Rest
  /\ UNCHANGED <<pc, uri, p1, interval, loads, result, stack, other,
                 ahead, ranIn, console>>

\* Variant: the error is stored and not printed.
ConsoleSilent(c, e) == c
\* console.error(e) (line 9): one more entry on the error console.
ConsoleError(c, e) == Append(c, e)

\* Line 9: the reaction of .catch(err => console.error(mod = err)).
RunCatch(i) ==
  /\ Looping
  /\ Next1 = Task("catch", i)
  /\ IF CatchFires(p2[i])
       THEN /\ mod' = [mod EXCEPT ![Slot(i)] = p2[i].value]
            /\ wrote' = [wrote EXCEPT ![Slot(i)] = Append(@, Task("catch", i))]
            /\ console' = ConsoleError(console, p2[i].value)
       ELSE UNCHANGED <<mod, wrote, console>>
  /\ queue' = Rest
  /\ UNCHANGED <<pc, uri, p1, p2, interval, loads, result, stack,
                 other, ahead, ranIn>>

\* The unrelated task runs to completion.
RunOther ==
  /\ Looping
  /\ Next1 = Task("other", 0)
  /\ other' = "done"
  /\ ranIn' = IF stack = <<>> THEN 0 ELSE Top
  /\ queue' = Rest
  /\ UNCHANGED <<pc, uri, mod, p1, p2, interval, loads, wrote,
                 result, stack, ahead, console>>

\* A ready task calls main: on an empty stack, or on top of the invocation
\* whose deasync.sleep is running the task.
RunCall(i, u) ==
  /\ Looping
  /\ Next1 = Task("call", i)
  /\ StartMain(i, u)
  /\ queue' = Rest

Next ==
  \/ \E i \in Inv, u \in Uris : Call(i, u)
  \/ \E i \in Inv : Poll(i)
  \/ \E i \in Inv : Return(i)
  \/ \E i \in Inv : Wake(i)
  \/ \E i \in Inv : Settle(i)
  \/ OtherReady
  \/ \E i \in Inv : CallerReady(i)
  \/ \E i \in Inv : RunThen(i)
  \/ \E i \in Inv : RunCatch(i)
  \/ RunOther
  \/ \E i \in Inv, u \in Uris : RunCall(i, u)

Spec == Init /\ [][Next]_vars

\* ------------------------------------------------------------ properties
TypeOK ==
  /\ pc \in [Inv -> {"idle", "queued", "check", "sleep", "done"}]
  /\ uri \in [Inv -> Uris \cup {"none"}]
  /\ mod \in [Inv -> JSValue]
  /\ \A i \in Inv : p1[i].state \in {"none", "pending", "fulfilled", "rejected"}
  /\ \A i \in Inv : p2[i].state \in {"none", "pending", "fulfilled", "rejected"}
  /\ interval \in [Inv -> {0, SleepMs}]
  /\ loads \in [Inv -> 0..1]
  /\ \A i \in Inv : result[i].kind \in {"none", "return", "throw"}
  /\ other \in {"waiting", "ready", "done"}
  /\ ranIn \in 0..NumInv

\* The load of invocation i has settled, and how.
LoadFulfilled(i) == p1[i].state = "fulfilled"
LoadRejected(i) == p1[i].state = "rejected"
\* The then-reaction ran its arrow function / the catch-reaction ran its own.
ThenRan(i) == p2[i].state = "fulfilled"
CatchRan(i) == \E k \in 1..Len(wrote[i]) : wrote[i][k] = Task("catch", i)
\* The step is the loop test of invocation i (line 11) being evaluated.
LoopTest(i) == pc[i] = "check" /\ pc'[i] # "check"

\* C1: when the load of an invocation fulfils with a namespace whose default
\* member is V, main returns exactly V: once the success callback has run, the
\* loop test that follows ends main with the return value V and no other
\* outcome, and a completed main has returned V after the callback wrote it.
C1_SuccessReturnsDefault ==
  /\ [](\A i \in Inv : (pc[i] = "done" /\ LoadFulfilled(i)) =>
          /\ result[i] = [kind |-> "return", value |-> GetDefault(p1[i].ns)]
          /\ wrote[i] # <<>>)
  /\ [][\A i \in Inv : (ThenRan(i) /\ "default" \in DOMAIN p1[i].ns /\ LoopTest(i)) =>
          /\ pc'[i] = "done"
          /\ result'[i] = [kind |-> "return", value |-> p1[i].ns["default"]]]_vars

\* C2: when the load of an invocation rejects with error E, main raises an
\* error carrying E to its caller and returns no value: a completed main whose
\* load rejected has completed by a throw whose payload is E.
C2_FailureRaises ==
  \A i \in Inv : (pc[i] = "done" /\ LoadRejected(i)) =>
     result[i] = [kind |-> "throw", value |-> p1[i].value]

\* C3: when the load fulfils with a falsy or missing default value, main still
\* returns that exact value: after the success callback has stored it, the
\* loop test ends main with that return value instead of yielding again, and
\* nothing is reported as a failure.
C3_FalsySuccessReturned ==
  [][\A i \in Inv :
       (ThenRan(i) /\ ~ToBoolean(GetDefault(p1[i].ns)) /\ LoopTest(i)) =>
          /\ pc'[i] # "sleep"
          /\ result'[i] = [kind |-> "return", value |-> GetDefault(p1[i].ns)]
          /\ ~CatchRan(i)]_vars

\* C4: main never completes before the load has settled and one of its
\* completion callbacks has written the slot, and what it hands to the caller
\* is the value that callback stored, never the unset slot.
C4_NoEarlyReturn ==
  \A i \in Inv : pc[i] = "done" =>
     /\ LoadFulfilled(i) \/ LoadRejected(i)
     /\ wrote[i] # <<>>
     /\ result[i].kind # "none"
     /\ result[i].value = mod[i]
     /\ result[i].value # InitialSlot

\* C4 witness: an invocation has completed after its load settled.
C4_Witness == \E i \in Inv : pc[i] = "done" /\ LoadFulfilled(i) /\ wrote[i] # <<>>

C6_ExitsAfterSettlement ==
  [][\A i \in Inv : (wrote[i] # <<>> /\ LoopTest(i)) =>
        (pc'[i] = "done" /\ result'[i].kind # "none")]_vars

\* C7: while the load of an invocation has not settled, main neither returns
\* nor raises: every loop test starts a yield of 100 units, every yield goes
\* back to the loop test, and one of the two is always possible for the
\* running invocation; a load that never settles stays unsettled.
C7_NoTimeout ==
  /\ [](\A i \in Inv : p1[i].state = "pending" =>
          /\ pc[i] \in {"check", "sleep"}
          /\ result[i] = NoResult
          /\ (stack # <<>> /\ Top = i /\ ~MicrotaskPending) =>
                ENABLED (Poll(i) \/ Wake(i)))
  /\ [][\A i \in Inv : (p1[i].state = "pending" /\ p1'[i].state = "pending") =>
          /\ pc[i] = "check" => pc'[i] \in {"check", "sleep"}
          /\ (pc[i] = "check" /\ pc'[i] = "sleep") => interval'[i] = SleepMs
          /\ pc[i] = "sleep" => pc'[i] \in {"sleep", "check"}]_vars
  /\ [][\A i \in Inv : (p1[i].state = "pending" /\ Import(uri[i]) = Unsettled) =>
          p1'[i].state = "pending"]_vars

\* C7 witness: an invocation whose load never settles is suspended in a yield
\* of 100 units, during which another task has run to completion.
C7_Witness ==
  \E i \in Inv : /\ uri[i] = "hangs" /\ pc[i] = "sleep" /\ interval[i] = SleepMs
                 /\ ranIn = i

\* The unrelated task is next in the order of readiness.
OtherIsNext == queue # <<>> /\ queue[1] = Task("other", 0)

\* C8: while an invocation waits in its polling loop the scheduler keeps
\* running other ready tasks (the unrelated task, when it is next in line, can
\* run inside the yield), and an unrelated task that was ready before the
\* load of an invocation settled has completed by the time that invocation
\* returns.
C8_OthersProgress ==
  /\ \A i \in Inv : (stack # <<>> /\ Top = i /\ pc[i] = "sleep" /\ OtherIsNext) =>
        ENABLED RunOther
  /\ \A i \in Inv : (pc[i] = "done" /\ ahead[i]) => other = "done"

\* C8 witness: an invocation has returned, the unrelated task was ready before
\* its load settled, and the task ran inside one of that invocation's yields.
C8_Witness ==
  \E i \in Inv : pc[i] = "done" /\ ahead[i] /\ other = "done" /\ ranIn = i

\* What the load of invocation i settled with: the default member of the
\* namespace, or the error.
OwnOutcome(i) ==
  IF LoadFulfilled(i) THEN GetDefault(p1[i].ns) ELSE p1[i].value

\* C9: every invocation owns its slot: the only reactions that ever write the
\* slot of invocation i are those of invocation i's own load, the slot holds
\* nothing but the unset value or the outcome of that load, and a completed
\* invocation hands its caller the outcome of its own load.
C9_SlotIsolation ==
  \A i \in Inv :
     /\ \A k \in 1..Len(wrote[i]) : wrote[i][k].inv = i
     /\ p1[i].state \in {"none", "pending"} => mod[i] = InitialSlot
     /\ (LoadFulfilled(i) \/ LoadRejected(i)) =>
           /\ p1[i] = Import(uri[i])
           /\ mod[i] \in {InitialSlot, OwnOutcome(i)}
     /\ pc[i] = "done" => result[i].value = OwnOutcome(i)

\* C9 witness: two invocations with different identifiers overlap: the second,
\* started inside a yield of the first, has returned its own value while the
\* first, whose own callback has written its slot, is still in its yield.
C9_Witness ==
  /\ NumInv >= 2
  /\ pc[1] = "sleep" /\ pc[2] = "done" /\ stack = <<1>>
  /\ wrote[1] # <<>> /\ wrote[2] # <<>>
  /\ uri[1] # uri[2] /\ mod[1] # mod[2]
  /\ result[2].value = mod[2]

\* C10: an invocation whose load has settled and whose callback has stored a
\* terminal value is never kept from returning by another invocation whose
\* load is still pending: whatever the other invocation's state, its yield can
\* end and its loop test can run.
C10_NonInterference ==
  \A i, j \in Inv :
     (/\ i # j
      /\ pc[i] = "sleep" /\ wrote[i] # <<>> /\ ToBoolean(mod[i])
      /\ pc[j] \in {"check", "sleep"} /\ p1[j].state = "pending"
      /\ ~MicrotaskPending) =>
        ENABLED Wake(i)

\* C11: success and failure are distinguishable: when the load of one
\* invocation rejects with payload X and the load of another fulfils with
\* default member X, what the two completed invocations hand to their callers
\* differs, and so do their slots.
C11_OutcomesDistinguishable ==
  \A i, j \in Inv :
     (/\ pc[i] = "done" /\ pc[j] = "done"
      /\ LoadRejected(i) /\ LoadFulfilled(j)
      /\ p1[i].value = GetDefault(p1[j].ns)) =>
        (result[i] # result[j] /\ mod[i] # mod[j])

\* A reaction of invocation i runs in this step (its handler or a pass-through).
ReactionRuns(i) == p2'[i] # p2[i] \/ wrote'[i] # wrote[i]

\* C12: the completion callback of an invocation runs only while that
\* invocation is suspended inside a polling yield: never before its first slot
\* check and never between a slot check and the return. Hence the slot is
\* unset at the first check, every completed invocation has performed at
\* least one yield, and the loop sees a written slot only at a check that
\* follows the yield in which the callback ran.
C12_CallbackInsideYield ==
  /\ [](\A i \in Inv :
          /\ (pc[i] = "check" /\ interval[i] = 0) =>
                (wrote[i] = <<>> /\ mod[i] = InitialSlot)
          /\ wrote[i] # <<>> => interval[i] = SleepMs
          /\ pc[i] = "done" => interval[i] = SleepMs)
  /\ [][\A i \in Inv : (ReactionRuns(i) /\ pc[i] # "idle" /\ pc[i] # "queued") =>
          (pc[i] = "sleep" /\ pc'[i] = "sleep")]_vars

\* C12 witness: the callback of an invocation has written its slot while the
\* invocation is still suspended in the yield.
C12_Witness ==
  \E i \in Inv : pc[i] = "sleep" /\ wrote[i] # <<>> /\ ToBoolean(mod[i])

\* C13: every invocation starts its load exactly once, in the step that
\* calls main, before its first slot check and without waiting for it (the
\* promise is still pending when the loop is reached); the load is never
\* started again, whether it succeeded, failed or is still pending.
C13_SingleLoad ==
  /\ [](\A i \in Inv :
          /\ pc[i] \in {"idle", "queued"} => (loads[i] = 0 /\ p1[i] = NoPromise)
          /\ pc[i] \in {"check", "sleep", "done"} =>
                (loads[i] = 1 /\ p1[i].state # "none"))
  /\ [][\A i \in Inv : loads'[i] # loads[i] =>
          /\ pc[i] \in {"idle", "queued"} /\ pc'[i] = "check"
          /\ loads'[i] = 1
          /\ p1'[i] = Unsettled /\ interval'[i] = 0]_vars
  /\ [][\A i \in Inv : p1[i].state \in {"fulfilled", "rejected"} =>
          p1'[i] = p1[i]]_vars

\* C13 witness: an invocation whose load failed keeps polling (the error was
\* falsy) and has still started its load only once.
C13_Witness ==
  \E i \in Inv : /\ LoadRejected(i) /\ CatchRan(i) /\ ~ToBoolean(mod[i])
                 /\ pc[i] = "check" /\ interval[i] = SleepMs
                 /\ loads[i] = 1

\* The invocations whose failure callback has run.
Failed == {i \in Inv : CatchRan(i)}

====
